---- MODULE Spec2Model ----
(***************************************************************************)
(* Model of the mesito back end: the relational store of machines and      *)
(* their time-ranged states, and the request handlers of mesito/route.py   *)
(* with the operations of mesito/operation.py they call.                   *)
(***************************************************************************)
EXTENDS Integers, FiniteSets, Sequences, TLC

(***************************************************************************)
(* Bounds of the model.                                                    *)
(***************************************************************************)
\* timestamps of requests are drawn from 0..MaxTime
MaxTime == 2
\* largest machine id the store hands out
MaxMachineId == 2
\* largest machine-state id the store hands out
MaxStateId == 2
\* largest version handed to the output casts
MaxVersion == 108

Times == 0..MaxTime
MachineIds == 1..MaxMachineId

\* SQL NULL / Python None of a nullable numeric column
NULL == -1

\* the values of mesito.model.MachineCondition the modelled requests carry
ReqConditions == {"working", "broken"}
\* machine names the modelled requests carry
Names == {"a", "b"}

VARIABLES
    machines,        \* rows of table machine
    machine_states,  \* rows of table machine_state
    req,             \* the last request handled
    resp,            \* the response to the last request
    pre,             \* rows of machine_state before the last request
    pre_machines,    \* rows of machine before the last request
    emitted,         \* the events the last request broadcast
    deleted,         \* history: the ids delete_machine was requested for
                     \* (recorded by SpecLater only)
    patched,         \* history: per id, the successful patches of the
                     \* machine since it was created
    pc,              \* concurrent workers: position in the operation
    wdata,           \* concurrent workers: validated request data
    wfound,          \* concurrent workers: result of find_machine_state
    wresp,           \* concurrent workers: the response of the request
    wpatch,          \* concurrent workers: id and data of a patch_machine
    wmachi           \* concurrent workers: the Machine patch_machine loaded

vars ==
    <<machines, machine_states, req, resp, pre, pre_machines, emitted,
      deleted, patched, pc, wdata, wfound, wresp, wpatch, wmachi>>
seqVars == <<req, resp, pre, pre_machines, emitted, deleted, patched>>
patchVars == <<wpatch, wmachi>>
putVars == <<wdata, wfound>>
workerVars == <<pc, wdata, wfound, wresp, wpatch, wmachi>>

\* the workers that handle requests concurrently
Workers == {1, 2}

(***************************************************************************)
(* Rows.                                                                   *)
(***************************************************************************)
\* the "no row" result of Query.first() / Query.get()
NoRow ==
    [id |-> 0, machine_id |-> 0, start |-> 0, stop |-> 0, condition |-> "",
     min_power_consumption |-> NULL, max_power_consumption |-> NULL,
     avg_power_consumption |-> NULL, total_energy |-> NULL, pieces |-> NULL]

\* validated request data of put_machine_state without optional fields
StatePut(machine_id, start, stop, condition) ==
    [machine_id |-> machine_id, start |-> start, stop |-> stop,
     condition |-> condition,
     min_power_consumption |-> NULL, max_power_consumption |-> NULL,
     avg_power_consumption |-> NULL, total_energy |-> NULL, pieces |-> NULL]

\* the requests to put_machine_state the model draws from
StatePuts ==
    {StatePut(m, s, e, c) : m \in MachineIds, s \in Times, e \in Times,
                            c \in ReqConditions}

\* the id an INTEGER PRIMARY KEY column assigns to a new row (SQLite rowid,
\* the store of the tests): one more than the largest id in the table; the
\* model stops handing out ids above maxId
MaxOf(ids) == IF ids = {} THEN 0 ELSE CHOOSE i \in ids : \A j \in ids : i >= j

NewIds(ids, maxId) == {i \in 1..maxId : i = MaxOf(ids) + 1}

\* result of Query.first(): any row of the result set, NoRow if it is empty
First(rows) == IF rows = {} THEN {NoRow} ELSE rows

(***************************************************************************)
(* mesito/front/error.py and the success response.                         *)
(***************************************************************************)
ok(result) == [what |-> "ok", result |-> result]

raised(exception) == [what |-> exception]

\* schema_violation; the text of the validator is left out
schema_violation == [what |-> "SchemaViolation"]

constraint_violation(why) == [what |-> "ConstraintViolation", why |-> why]

error_machine_state_overlap(start, stop, machine_id) ==
    [what |-> "MachineStateOverlap",
     why |-> [start |-> start, stop |-> stop, machine_id |-> machine_id]]

machine_state_condition_changed(old, new) ==
    [what |-> "MachineStateConditionChanged",
     why |-> [old |-> old, new |-> new]]

machine_not_found(machine_id) ==
    [what |-> "MachineNotFound", why |-> [machine_id |-> machine_id]]

(***************************************************************************)
(* mesito/front/out.py: the casts of the responses and of the events, and  *)
(* the events as flask_socketio.emit broadcasts them.                      *)
(***************************************************************************)
\* the bound the @require of the casts puts on a version: 2 * 53
MaxCastVersion == 106

\* @require(lambda version: version <= 2 * 53, ...)
version_castable(version) == version <= MaxCastVersion

\* out.machine
out_machine(id, name, version) ==
    [id |-> id, name |-> name, version |-> version]

\* out.machine_put_emit, emitted as "put_machine"
machine_put_emit(id, name, version) ==
    [name |-> "put_machine",
     args |-> [id |-> id, name |-> name, version |-> version]]

\* out.machine_patch_emit, emitted as "put_machine"; the name is part of the
\* event only if the patch carries it ("" stands for its absence)
machine_patch_emit(data, id, version) ==
    [name |-> "put_machine",
     args |-> [id |-> id, version |-> version,
               name |-> IF "name" \in data.fields THEN data.name ELSE ""]]

\* out.machine_delete_emit, emitted as "delete_machine"
machine_delete_emit(id) ==
    [name |-> "delete_machine", args |-> [id |-> id]]

(***************************************************************************)
(* mesito/front/valid.py                                                   *)
(***************************************************************************)
\* machine_state_put whose comparison of start and stop is reversed
machine_state_put_violation_reversed(data) == data.start < data.stop

\* machine_state_put that also refuses a state of length zero
machine_state_put_violation_inclusive(data) == data.start >= data.stop

\* machine_state_put: the local constraint checked after the schema
machine_state_put_violation(data) == data.start > data.stop

\* machine_post: the schema requires the name
machine_post_violation(data) == "name" \notin data.fields

\* the bodies of post_machine the model draws from: one without a name and
\* one for each name
MachinePosts ==
    {[fields |-> {}, name |-> ""]} \cup
    {[fields |-> {"name"}, name |-> n] : n \in Names}

\* machine_patch that accepts a patch without fields
machine_patch_violation_never(data) == FALSE

\* machine_patch: the local constraint checked after the schema
machine_patch_violation(data) == data.fields = {}

\* the patches the model draws from
MachinePatches ==
    {[fields |-> {}, name |-> ""]} \cup
    {[fields |-> {"name"}, name |-> n] : n \in Names}

(***************************************************************************)
(* mesito/model.py: Machine maps the columns id and name.  The operations  *)
(* also read and write machi.version, which is no column: it is a plain    *)
(* attribute of the instance at hand and is neither stored nor loaded.     *)
(***************************************************************************)
\* the version of an instance that has no attribute "version"
NoVersion == 0

\* a Machine as the session loads it from its row
loaded(row) == [id |-> row.id, name |-> row.name, version |-> NoVersion]

\* the row the commit stores for a Machine: its mapped columns
stored(machi) == [id |-> machi.id, name |-> machi.name]

\* the order of the machine names the model uses, as ORDER BY name ASC
NameRank(name) == IF name = "a" THEN 1 ELSE IF name = "b" THEN 2 ELSE 0

\* the results of query(Machine).order_by(Machine.name.asc()).all()
machines_by_name(rows) ==
    {q \in [1..Cardinality(rows) -> rows] :
        /\ \A i, j \in 1..Cardinality(rows) : i # j => q[i] # q[j]
        /\ \A i, j \in 1..Cardinality(rows) :
              i < j => NameRank(q[i].name) <= NameRank(q[j].name)}

\* operation.machines: the list of the casts of the machines queried, or
\* the exception the first machi.version that cannot be read or cast raises
machines_listed(q) ==
    IF \E i \in DOMAIN q : loaded(q[i]).version = NoVersion
    THEN raised("AttributeError")
    ELSE IF \E i \in DOMAIN q : ~version_castable(loaded(q[i]).version)
    THEN raised("ViolationError")
    ELSE ok([i \in DOMAIN q |->
                out_machine(loaded(q[i]).id, loaded(q[i]).name,
                            loaded(q[i]).version)])

\* the "no row" result of query(Machine).get(id)
NoMachine == [id |-> 0, name |-> ""]

\* query(Machine).get(id) that does not compare the primary key
machine_get_unfiltered(rows, id) ==
    IF rows = {} THEN {NoMachine} ELSE rows

\* query(Machine).get(id): the row with the primary key, NoMachine without
machine_get(rows, id) ==
    IF {m \in rows : m.id = id} = {} THEN {NoMachine}
    ELSE {m \in rows : m.id = id}

\* the unique index on machine.name that lets every commit pass
name_unique_violated_never(rows, id, name) == FALSE

\* the unique index on machine.name: the commit of the machine id with the
\* name fails if another row carries the name
name_unique_violated(rows, id, name) ==
    \E m \in rows : m.id # id /\ m.name = name

\* create_machine: the instance added to the session
created(id, name) == [id |-> id, name |-> name, version |-> 1]

\* patch_machine: the instance after the assignment of the name
renamed(machi, data) ==
    [machi EXCEPT !.name = IF "name" \in data.fields THEN data.name ELSE @]

\* delete_machine: the rows the two DELETE statements leave
\* the DELETE of the states that matches no row
states_without_none(rows, id) == rows

states_without(rows, id) == {s \in rows : s.machine_id # id}

\* the DELETE of the machine whose filter compares the id with >=
machines_without_from(rows, id) == {m \in rows : m.id < id}

machines_without(rows, id) == {m \in rows : m.id # id}

(***************************************************************************)
(* mesito/operation.py: queries.                                           *)
(***************************************************************************)
\* machine_exists whose query lost its filter on the id
machine_exists_unfiltered(rows, id) == \E m \in rows : TRUE

machine_exists(rows, id) == \E m \in rows : m.id = id

\* find_machine_state whose filter compares the stop column with the start
find_machine_state_by_stop(rows, machine_id, start) ==
    {s \in rows : s.machine_id = machine_id /\ s.stop = start}

\* the result set of the query of find_machine_state
find_machine_state(rows, machine_id, start) ==
    {s \in rows : s.machine_id = machine_id /\ s.start = start}

\* the query of machine_state_overlap without the filter on the machine
overlap_query_any_machine(rows, machine_id, start, stop) ==
    {s \in rows : s.start < stop /\ s.stop > start}

\* the query of machine_state_overlap over closed intervals
overlap_query_closed(rows, machine_id, start, stop) ==
    {s \in rows : s.start <= stop /\ s.stop >= start
                  /\ s.machine_id = machine_id}

\* the result set of the query of machine_state_overlap
overlap_query(rows, machine_id, start, stop) ==
    {s \in rows : s.start < stop /\ s.stop > start
                  /\ s.machine_id = machine_id}

\* machine_state_overlap that exempts the row at the start whatever its stop
machine_state_overlap_same_start(first, start, stop) ==
    IF first = NoRow
    THEN NoRow
    ELSE IF first.start = start
    THEN NoRow
    ELSE first

\* machine_state_overlap that takes a row for prolonged only if its stop moves
machine_state_overlap_strict(first, start, stop) ==
    IF first = NoRow
    THEN NoRow
    ELSE IF first.start = start /\ first.stop < stop
         THEN NoRow
         ELSE first

\* machine_state_overlap, given the row its query returned first:
\* NoRow if there is no conflict, else the row reported
machine_state_overlap(first, start, stop) ==
    IF first = NoRow
    THEN NoRow
    ELSE IF first.start = start /\ first.stop <= stop
         THEN NoRow
         ELSE first

\* the condition check left out
condition_changed_never(found, data) == FALSE

\* the condition check with the comparison inverted
condition_changed_inverted(found, data) ==
    found # NoRow /\ found.condition = data.condition

\* put_machine_state: "Existing machine state must not change condition."
condition_changed(found, data) ==
    found # NoRow /\ found.condition # data.condition

\* the upsert that keeps the stored value of a metric the request omits
upserted_keeping_metrics(found, data, id) ==
    [id |-> IF found = NoRow THEN id ELSE found.id,
     machine_id |-> IF found = NoRow THEN data.machine_id
                    ELSE found.machine_id,
     start |-> IF found = NoRow THEN data.start ELSE found.start,
     stop |-> data.stop,
     condition |-> data.condition,
     min_power_consumption |->
         IF found # NoRow /\ data.min_power_consumption = NULL
         THEN found.min_power_consumption ELSE data.min_power_consumption,
     max_power_consumption |->
         IF found # NoRow /\ data.max_power_consumption = NULL
         THEN found.max_power_consumption ELSE data.max_power_consumption,
     avg_power_consumption |->
         IF found # NoRow /\ data.avg_power_consumption = NULL
         THEN found.avg_power_consumption ELSE data.avg_power_consumption,
     total_energy |->
         IF found # NoRow /\ data.total_energy = NULL
         THEN found.total_energy ELSE data.total_energy,
     pieces |-> IF found = NoRow THEN NULL ELSE found.pieces]

\* the upsert that stores the start of a new state as its stop
upserted_stop_from_start(found, data, id) ==
    [id |-> IF found = NoRow THEN id ELSE found.id,
     machine_id |-> IF found = NoRow THEN data.machine_id
                    ELSE found.machine_id,
     start |-> IF found = NoRow THEN data.start ELSE found.start,
     stop |-> IF found = NoRow THEN data.start ELSE data.stop,
     condition |-> data.condition,
     min_power_consumption |-> data.min_power_consumption,
     max_power_consumption |-> data.max_power_consumption,
     avg_power_consumption |-> data.avg_power_consumption,
     total_energy |-> data.total_energy,
     pieces |-> IF found = NoRow THEN NULL ELSE found.pieces]

\* put_machine_state, the upsert: the row written for the request
upserted(found, data, id) ==
    [id |-> IF found = NoRow THEN id ELSE found.id,
     machine_id |-> IF found = NoRow THEN data.machine_id
                    ELSE found.machine_id,
     start |-> IF found = NoRow THEN data.start ELSE found.start,
     stop |-> data.stop,
     condition |-> data.condition,
     min_power_consumption |-> data.min_power_consumption,
     max_power_consumption |-> data.max_power_consumption,
     avg_power_consumption |-> data.avg_power_consumption,
     total_energy |-> data.total_energy,
     pieces |-> IF found = NoRow THEN NULL ELSE found.pieces]

\* the UPDATE the session flushes for a loaded row: only the attributes whose
\* value differs from the loaded one are written to the stored row cur
flushed(cur, found, row) ==
    [cur EXCEPT
        !.stop = IF row.stop # found.stop THEN row.stop ELSE @,
        !.condition =
            IF row.condition # found.condition THEN row.condition ELSE @,
        !.min_power_consumption =
            IF row.min_power_consumption # found.min_power_consumption
            THEN row.min_power_consumption ELSE @,
        !.max_power_consumption =
            IF row.max_power_consumption # found.max_power_consumption
            THEN row.max_power_consumption ELSE @,
        !.avg_power_consumption =
            IF row.avg_power_consumption # found.avg_power_consumption
            THEN row.avg_power_consumption ELSE @,
        !.total_energy =
            IF row.total_energy # found.total_energy
            THEN row.total_energy ELSE @]

\* the rows of machine_state after session.add and session.commit: an INSERT
\* of the new row, or an UPDATE of the row that was found, by primary key
committed(rows, found, row) ==
    IF found = NoRow
    THEN rows \cup {row}
    ELSE {IF s.id = found.id THEN flushed(s, found, row) ELSE s : s \in rows}

StateIdsOf(rows) == {s.id : s \in rows}

\* session.commit() of a loaded row that was deleted in the meantime: the
\* UPDATE the session flushes matches no row and the session raises
stale_update(rows, found, row) ==
    /\ found # NoRow
    /\ found.id \notin StateIdsOf(rows)
    /\ flushed(found, found, row) # found

\* the primary key of the row written: assigned by the INSERT, or the loaded one
assigned_ids(rows, found) ==
    IF found = NoRow THEN NewIds(StateIdsOf(rows), MaxStateId) ELSE {found.id}

\* put_machine_state up to the upsert, on the rows of one machine: the
\* answers the checks can give, the success without the id of the row
put_outcomes(exists, rows, data) ==
    IF ~exists
    THEN {machine_not_found(data.machine_id)}
    ELSE {IF condition_changed(found, data)
          THEN machine_state_condition_changed(
                   found.condition, data.condition)
          ELSE IF machine_state_overlap(first, data.start, data.stop) # NoRow
          THEN error_machine_state_overlap(
                   machine_state_overlap(first, data.start, data.stop).start,
                   machine_state_overlap(first, data.start, data.stop).stop,
                   data.machine_id)
          ELSE [what |-> "ok"] :
             found \in First(find_machine_state(
                                rows, data.machine_id, data.start)),
             first \in First(overlap_query(
                                rows, data.machine_id, data.start,
                                data.stop))}

(***************************************************************************)
(* Requests.                                                               *)
(***************************************************************************)
Request(op, id, data) == [op |-> op, id |-> id, data |-> data]

NoData == [fields |-> {}, name |-> ""]

Init ==
    /\ machines = {}
    /\ machine_states = {}
    /\ req = Request("none", 0, NoData)
    /\ resp = ok(0)
    /\ pre = {}
    /\ pre_machines = {}
    /\ emitted = <<>>
    /\ deleted = {}
    /\ patched = [id \in MachineIds |-> 0]
    /\ pc = [w \in Workers |-> "idle"]
    /\ wdata = [w \in Workers |-> StatePut(0, 0, 0, "")]
    /\ wfound = [w \in Workers |-> NoRow]
    /\ wresp = [w \in Workers |-> ok(0)]
    /\ wpatch = [w \in Workers |-> [id |-> 0, data |-> NoData]]
    /\ wmachi = [w \in Workers |-> loaded(NoMachine)]

(***************************************************************************)
(* route.post_machine with operation.create_machine                       *)
(***************************************************************************)
post_machine(data) ==
    /\ req' = Request("post_machine", 0, data)
    /\ pre' = machine_states
    /\ pre_machines' = machines
    /\ IF machine_post_violation(data)
       THEN /\ resp' = schema_violation
            /\ emitted' = <<>>
            /\ UNCHANGED <<machines, patched>>
       ELSE IF name_unique_violated(machines, 0, data.name)
       THEN \* the unique index on machine.name fails the commit
            /\ resp' = raised("IntegrityError")
            /\ emitted' = <<>>
            /\ UNCHANGED <<machines, patched>>
       ELSE \E id \in NewIds({m.id : m \in machines}, MaxMachineId) :
                LET machi == created(id, data.name)
                IN  /\ machines' = machines \cup {stored(machi)}
                    /\ patched' = [patched EXCEPT ![id] = 0]
                    /\ IF version_castable(machi.version)
                       THEN /\ emitted' = <<machine_put_emit(
                                   machi.id, data.name, machi.version)>>
                            /\ resp' = ok(machi.id)
                       ELSE /\ emitted' = <<>>
                            /\ resp' = raised("ViolationError")
    /\ UNCHANGED <<machine_states, deleted, workerVars>>

(***************************************************************************)
(* route.patch_machine with operation.patch_machine.  The data is the set  *)
(* of the fields the patch carries and the value of the name.  A Machine   *)
(* loaded by the session of the request has no attribute "version", so    *)
(* the increment of machi.version raises before the commit is reached and *)
(* the session is discarded with the name it was assigned.                 *)
(***************************************************************************)
patch_machine(id, data) ==
    /\ req' = Request("patch_machine", id, data)
    /\ pre' = machine_states
    /\ pre_machines' = machines
    /\ UNCHANGED <<machine_states, deleted, workerVars>>
    /\ IF machine_patch_violation(data)
       THEN /\ resp' = constraint_violation("Empty patch")
            /\ emitted' = <<>>
            /\ UNCHANGED <<machines, patched>>
       ELSE \E row \in machine_get(machines, id) :
            LET machi == renamed(loaded(row), data)
            IN  IF row = NoMachine
                THEN /\ resp' = machine_not_found(id)
                     /\ emitted' = <<>>
                     /\ UNCHANGED <<machines, patched>>
                ELSE IF machi.version = NoVersion
                THEN /\ resp' = raised("AttributeError")
                     /\ emitted' = <<>>
                     /\ UNCHANGED <<machines, patched>>
                ELSE IF name_unique_violated(machines, row.id, machi.name)
                THEN /\ resp' = raised("IntegrityError")
                     /\ emitted' = <<>>
                     /\ UNCHANGED <<machines, patched>>
                ELSE /\ machines' =
                            machines_without(machines, row.id)
                                \cup {stored(machi)}
                     /\ patched' = [patched EXCEPT ![row.id] = @ + 1]
                     /\ IF version_castable(machi.version + 1)
                        THEN /\ emitted' = <<machine_patch_emit(
                                    data, id, machi.version + 1)>>
                             /\ resp' = ok(machi.version + 1)
                        ELSE /\ emitted' = <<>>
                             /\ resp' = raised("ViolationError")

(***************************************************************************)
(* route.delete_machine with operation.delete_machine                     *)
(***************************************************************************)
delete_machine(id) ==
    /\ req' = Request("delete_machine", id, NoData)
    /\ pre' = machine_states
    /\ pre_machines' = machines
    /\ machine_states' = states_without(machine_states, id)
    /\ machines' = machines_without(machines, id)
    /\ emitted' = <<machine_delete_emit(id)>>
    /\ resp' = ok(0)
    /\ UNCHANGED <<patched, workerVars>>

(***************************************************************************)
(* route.get_machines with operation.machines                             *)
(***************************************************************************)
get_machines ==
    /\ req' = Request("get_machines", 0, NoData)
    /\ pre' = machine_states
    /\ pre_machines' = machines
    /\ emitted' = <<>>
    /\ \E q \in machines_by_name(machines) : resp' = machines_listed(q)
    /\ UNCHANGED <<machines, machine_states, deleted, patched, workerVars>>

(***************************************************************************)
(* route.put_machine_state with operation.put_machine_state               *)
(***************************************************************************)
put_machine_state(data) ==
    /\ req' = Request("put_machine_state", 0, data)
    /\ pre' = machine_states
    /\ pre_machines' = machines
    /\ emitted' = <<>>
    /\ UNCHANGED <<machines, deleted, patched, workerVars>>
    /\ IF machine_state_put_violation(data)
       THEN /\ resp' = constraint_violation("stop before start")
            /\ UNCHANGED machine_states
       ELSE IF ~machine_exists(machines, data.machine_id)
       THEN /\ resp' = machine_not_found(data.machine_id)
            /\ UNCHANGED machine_states
       ELSE \E found \in First(find_machine_state(
                            machine_states, data.machine_id, data.start)) :
            IF condition_changed(found, data)
            THEN /\ resp' = machine_state_condition_changed(
                                found.condition, data.condition)
                 /\ UNCHANGED machine_states
            ELSE \E first \in First(overlap_query(
                        machine_states, data.machine_id, data.start,
                        data.stop)) :
                 LET other == machine_state_overlap(
                                  first, data.start, data.stop)
                 IN  IF other # NoRow
                     THEN /\ resp' = error_machine_state_overlap(
                                  other.start, other.stop, data.machine_id)
                          /\ UNCHANGED machine_states
                     ELSE \E id \in assigned_ids(machine_states, found) :
                          LET row == upserted(found, data, id)
                          IN  /\ machine_states' =
                                     committed(machine_states, found, row)
                              /\ resp' = ok(row.id)

Next ==
    \/ \E data \in MachinePosts : post_machine(data)
    \/ \E id \in MachineIds, data \in MachinePatches : patch_machine(id, data)
    \/ \E id \in MachineIds : delete_machine(id) /\ UNCHANGED deleted
    \/ get_machines
    \/ \E data \in StatePuts : put_machine_state(data)

Spec == Init /\ [][Next]_vars

(***************************************************************************)
(* The same requests with the history of the deletions recorded, for the   *)
(* properties that speak of the requests after a delete_machine.  The      *)
(* states put are those of one condition.                                  *)
(***************************************************************************)
LaterStatePuts == {d \in StatePuts : d.condition = "working"}

NextLater ==
    \/ \E data \in MachinePosts : post_machine(data)
    \/ \E id \in MachineIds, data \in MachinePatches : patch_machine(id, data)
    \/ \E id \in MachineIds :
          delete_machine(id) /\ deleted' = deleted \cup {id}
    \/ get_machines
    \/ \E data \in LaterStatePuts : put_machine_state(data)

SpecLater == Init /\ [][NextLater]_vars

(***************************************************************************)
(* The machine requests with the empty string among the names: the schemas *)
(* of machine_post and machine_patch ask for 'type': 'string' only.        *)
(***************************************************************************)
AnyNames == Names \cup {""}

AnyMachinePosts ==
    MachinePosts \cup {[fields |-> {"name"}, name |-> n] : n \in AnyNames}

AnyMachinePatches ==
    MachinePatches \cup {[fields |-> {"name"}, name |-> n] : n \in AnyNames}

NextNames ==
    \/ \E data \in AnyMachinePosts : post_machine(data)
    \/ \E id \in MachineIds, data \in AnyMachinePatches :
          patch_machine(id, data)
    \/ \E id \in MachineIds : delete_machine(id) /\ UNCHANGED deleted
    \/ get_machines

SpecNames == Init /\ [][NextNames]_vars

(***************************************************************************)
(* The state requests with their optional fields: the metrics of a request *)
(* are absent (NULL) or carry a value.                                     *)
(***************************************************************************)
MetricValues == {NULL, 1}

MetricStatePuts ==
    {[StatePut(m, s, e, "working") EXCEPT
          !.min_power_consumption = power,
          !.max_power_consumption = power,
          !.avg_power_consumption = power,
          !.total_energy = power,
          !.pieces = pieces] :
        m \in MachineIds, s \in Times, e \in Times,
        power \in MetricValues, pieces \in MetricValues}

NextMetrics ==
    \/ \E data \in MachinePosts : post_machine(data)
    \/ \E data \in MetricStatePuts : put_machine_state(data)

SpecMetrics == Init /\ [][NextMetrics]_vars

(***************************************************************************)
(* mesito/front/out.py on its own: the casts applied to machines of any    *)
(* version from 1 to MaxVersion, each of which a JSON double represents    *)
(* exactly.  A @require that fails raises icontract's ViolationError.      *)
(***************************************************************************)
Versions == 1..MaxVersion

\* the arguments of a cast, as the request of the step
CastArgs(name, version) ==
    [fields |-> {"name", "version"}, name |-> name, version |-> version]

\* out.machine(id, name, version)
cast_machine(id, name, version) ==
    /\ req' = Request("out.machine", id, CastArgs(name, version))
    /\ resp' = IF version_castable(version)
               THEN ok(out_machine(id, name, version))
               ELSE raised("ViolationError")
    /\ UNCHANGED <<machines, machine_states, pre, pre_machines, emitted,
                   deleted, patched, workerVars>>

\* out.machine_put_emit(id, name, version)
cast_machine_put_emit(id, name, version) ==
    /\ req' = Request("out.machine_put_emit", id, CastArgs(name, version))
    /\ resp' = IF version_castable(version)
               THEN ok(machine_put_emit(id, name, version).args)
               ELSE raised("ViolationError")
    /\ UNCHANGED <<machines, machine_states, pre, pre_machines, emitted,
                   deleted, patched, workerVars>>

\* out.machine_patch_emit(data, id, version)
cast_machine_patch_emit(data, id, version) ==
    /\ req' = Request("out.machine_patch_emit", id,
                       CastArgs(data.name, version))
    /\ resp' = IF version_castable(version)
               THEN ok(machine_patch_emit(data, id, version).args)
               ELSE raised("ViolationError")
    /\ UNCHANGED <<machines, machine_states, pre, pre_machines, emitted,
                   deleted, patched, workerVars>>

NextCast ==
    \/ \E id \in MachineIds, name \in Names, version \in Versions :
          cast_machine(id, name, version)
    \/ \E id \in MachineIds, name \in Names, version \in Versions :
          cast_machine_put_emit(id, name, version)
    \/ \E id \in MachineIds, data \in {d \in MachinePatches : ~machine_patch_violation(d)}, version \in Versions :
          cast_machine_patch_emit(data, id, version)

SpecCast == Init /\ [][NextCast]_vars

(***************************************************************************)
(* Properties of the sequential request handlers.                          *)
(***************************************************************************)
\* half-open intervals [a.start, a.stop) and [b.start, b.stop) intersect
Intersects(a, b) == a.start < b.stop /\ b.start < a.stop

\* the last request was a put_machine_state that passed validation
PutHandled ==
    /\ req.op = "put_machine_state"
    /\ ~machine_state_put_violation(req.data)

\* the rows of the requested machine before the request
PreOfMachine == {s \in pre : s.machine_id = req.data.machine_id}

\* the rows the request targets by (machine_id, start), before the request
PreTargets == {s \in PreOfMachine : s.start = req.data.start}

\* the rows of the machine with another start that the request intersects
PreOthersHit ==
    {s \in PreOfMachine : s.start # req.data.start /\ Intersects(s, req.data)}

\* the request prolongs (or repeats) the row R
Prolongs(R) ==
    /\ R.condition = req.data.condition
    /\ req.data.stop >= R.stop

\* C1: in every reachable state no two distinct state rows of the same
\* machine have intersecting half-open intervals.
C1_NoOverlappingStates ==
    \A a \in machine_states, b \in machine_states :
        (a # b /\ a.machine_id = b.machine_id) => ~Intersects(a, b)

\* C2: a put_machine_state that prolongs an existing row R while another
\* row of the machine intersects the new interval is rejected with
\* MachineStateOverlap and R keeps its stop, whichever row the overlap
\* query returns first.
C2_ProlongationOverOtherRejected ==
    (/\ PutHandled
     /\ \E R \in PreTargets : Prolongs(R)
     /\ PreOthersHit # {})
    => /\ resp.what = "MachineStateOverlap"
       /\ machine_states = pre

\* C3: a put_machine_state that prolongs an existing row R while no other
\* row of the machine intersects the new interval succeeds, returns the id
\* of R, creates no row and sets the stop of R to the requested stop.
C3_ProlongationAccepted ==
    \A R \in pre :
        (/\ PutHandled
         /\ R \in PreTargets
         /\ Prolongs(R)
         /\ PreOthersHit = {})
        => /\ resp = ok(R.id)
           /\ StateIdsOf(machine_states) = StateIdsOf(pre)
           /\ Cardinality(machine_states) = Cardinality(pre)
           /\ [R EXCEPT !.stop = req.data.stop] \in machine_states
           /\ pre \ {R} \subseteq machine_states

\* a row was prolonged to a later stop
W_C3_Prolonged ==
    /\ PutHandled
    /\ resp.what = "ok"
    /\ \E R \in PreTargets : req.data.stop > R.stop
    /\ PreOthersHit = {}
    /\ Cardinality(PreOfMachine) >= 2

\* C4: put_machine_state is idempotent: the identical request submitted
\* again after a success succeeds with the same row id and leaves all
\* machine and state rows as they were.
C4_Idempotent ==
    [][(/\ req.op = "put_machine_state"
        /\ resp.what = "ok"
        /\ req'.op = "put_machine_state"
        /\ req'.data = req.data)
       => (/\ resp' = resp
           /\ machine_states' = machine_states
           /\ machines' = machines)]_vars

\* C5: a put_machine_state whose interval intersects an existing row of the
\* machine with a different start is rejected with MachineStateOverlap that
\* names the requested machine and the bounds of an existing row of the
\* machine that intersects the interval.  (Requests that change the
\* condition of the row at their start are answered by the condition check
\* of C6 and are left out here.)
C5_OverlapReported ==
    (/\ PutHandled
     /\ machine_exists(machines, req.data.machine_id)
     /\ PreOthersHit # {}
     /\ \A R \in PreTargets : R.condition = req.data.condition)
    => /\ resp.what = "MachineStateOverlap"
       /\ resp.why.machine_id = req.data.machine_id
       /\ \E o \in PreOfMachine :
             /\ o.start = resp.why.start
             /\ o.stop = resp.why.stop
             /\ Intersects(o, req.data)

\* C6: a put_machine_state for an existing (machine_id, start) row with
\* another condition fails with MachineStateConditionChanged{old, new} for
\* every stop >= start, before the overlap check; and no request changes
\* the condition of a row that stays in the store.
C6_ConditionImmutable ==
    /\ \A R \in pre :
          (/\ PutHandled
           /\ R \in PreTargets
           /\ R.condition # req.data.condition)
          => /\ resp = machine_state_condition_changed(
                           R.condition, req.data.condition)
             /\ machine_states = pre
    /\ \A p \in pre, r \in machine_states :
          p.id = r.id => r.condition = p.condition

\* a change of condition was refused although the request also shortens the
\* row or runs into another row of the machine
W_C6_ConditionChangeRefused ==
    /\ PutHandled
    /\ resp.what = "MachineStateConditionChanged"
    /\ \E R \in PreTargets :
          /\ R.condition # req.data.condition
          /\ (req.data.stop < R.stop \/ PreOthersHit # {})

\* C7: a put_machine_state for a machine id that is not in the store fails
\* with MachineNotFound{machine_id} and creates no state row.
C7_MachineNotFound ==
    (/\ PutHandled
     /\ ~\E m \in machines : m.id = req.data.machine_id)
    => /\ resp = machine_not_found(req.data.machine_id)
       /\ machine_states = pre

\* a state was refused for a missing machine while another machine exists
W_C7_MissingMachine ==
    /\ PutHandled
    /\ resp.what = "MachineNotFound"
    /\ machines # {}
    /\ ~\E m \in machines : m.id = req.data.machine_id

\* C8: for an existing machine without state rows and start <= stop,
\* put_machine_state succeeds, adds exactly the row (machine_id, start,
\* stop, condition) and returns an id no row had before the call.
C8_FirstStateCreated ==
    (/\ PutHandled
     /\ \E m \in machines : m.id = req.data.machine_id
     /\ PreOfMachine = {})
    => /\ resp.what = "ok"
       /\ resp.result \notin StateIdsOf(pre)
       /\ pre \subseteq machine_states
       /\ \E row \in machine_states :
             /\ machine_states \ pre = {row}
             /\ row.id = resp.result
             /\ row.machine_id = req.data.machine_id
             /\ row.start = req.data.start
             /\ row.stop = req.data.stop
             /\ row.condition = req.data.condition

\* the first state of a machine was created while another machine has one
W_C8_FirstState ==
    /\ PutHandled
    /\ resp.what = "ok"
    /\ PreOfMachine = {}
    /\ pre # {}
    /\ Cardinality(machine_states) = Cardinality(pre) + 1

\* C9: in every reachable state at most one state row exists per
\* (machine_id, start).
C9_UniqueStart ==
    \A a \in machine_states, b \in machine_states :
        (a.machine_id = b.machine_id /\ a.start = b.start) => a = b

\* a request for the start of an existing row was accepted, next to a
\* second row of the machine
W_C9_UpsertOnExistingStart ==
    /\ PutHandled
    /\ resp.what = "ok"
    /\ PreTargets # {}
    /\ Cardinality({s \in machine_states :
                        s.machine_id = req.data.machine_id}) >= 2

(***************************************************************************)
(* Properties of the machine handlers.                                     *)
(***************************************************************************)
\* the ids of the machines before the last request
PreMachineIds == {m.id : m \in pre_machines}

\* the last request was a patch that passed validation
PatchHandled ==
    /\ req.op = "patch_machine"
    /\ req.data.fields # {}

\* C11: create_machine adds exactly one machine with the given name,
\* version 1 and an id different from every existing machine's id, returns
\* (id, 1), and changes no other machine and no state row.
C11_MachineCreated ==
    (req.op = "post_machine" /\ resp.what = "ok")
    => /\ \E m \in machines :
            /\ m \notin pre_machines
            /\ machines = pre_machines \cup {m}
            /\ m.id \notin PreMachineIds
            /\ m.id = resp.result
            /\ m.name = req.data.name
            /\ loaded(m).version = 1
            /\ emitted = <<[name |-> "put_machine",
                            args |-> [id |-> m.id, name |-> m.name,
                                      version |-> 1]]>>
       /\ machine_states = pre

\* C12: a patch of an existing machine returns old version + 1 and stores
\* it, leaves the id unchanged, and sets the name to the supplied name if
\* and only if a name is supplied, also when the supplied name is the
\* current name.  The new version is 1 plus the successful patches of the
\* machine, this one included; the patches are those whose name no other
\* machine carries.
C12_MachinePatched ==
    (/\ PatchHandled
     /\ req.id \in PreMachineIds
     /\ \A m \in pre_machines : m.name = req.data.name => m.id = req.id)
    => /\ resp.what = "ok"
       /\ resp.result = patched[req.id] + 1
       /\ \E old \in pre_machines, new \in machines :
            /\ old.id = req.id
            /\ new.id = req.id
            /\ machines = (pre_machines \ {old}) \cup {new}
            /\ loaded(new).version = resp.result
            /\ new.name = IF "name" \in req.data.fields
                          THEN req.data.name ELSE old.name

\* C13: a patch (with a field) of a machine id that does not exist fails
\* with MachineNotFound{machine_id: id}, creates no machine, changes no row
\* and emits no event.
C13_PatchOfMissingMachine ==
    (PatchHandled /\ req.id \notin PreMachineIds)
    => /\ resp = [what |-> "MachineNotFound",
                  why |-> [machine_id |-> req.id]]
       /\ machines = pre_machines
       /\ machine_states = pre
       /\ emitted = <<>>

\* a patch with a name was refused for an id that no machine has, while
\* another machine is stored
W_C13_MissingMachinePatched ==
    /\ PatchHandled
    /\ req.id \notin PreMachineIds
    /\ pre_machines # {}
    /\ resp.what = "MachineNotFound"
    /\ resp.why.machine_id = req.id

\* C14: across any sequence of requests, while a machine exists list()
\* reports its version as 1 plus the number of successful patches applied
\* to it since its creation.
C14_VersionListed ==
    req.op = "get_machines"
    => /\ resp.what = "ok"
       /\ \A m \in machines :
            \E i \in DOMAIN resp.result :
                /\ resp.result[i].id = m.id
                /\ resp.result[i].version = 1 + patched[m.id]

\* C17: delete_machine of an id that does not exist (never created, or
\* already deleted) succeeds, leaves the store unchanged and broadcasts one
\* delete_machine event {id}.
C17_DeleteOfMissingMachine ==
    (req.op = "delete_machine" /\ req.id \notin PreMachineIds)
    => /\ resp.what = "ok"
       /\ machines = pre_machines
       /\ machine_states = pre
       /\ emitted = <<[name |-> "delete_machine", args |-> [id |-> req.id]]>>

\* an id that no machine has was deleted next to a machine with a larger id
\* and its state rows
W_C17_MissingMachineDeleted ==
    /\ req.op = "delete_machine"
    /\ req.id \notin PreMachineIds
    /\ resp.what = "ok"
    /\ \E m \in machines : m.id > req.id
    /\ machine_states # {}

\* C18: list() returns exactly the machines currently in the store, each
\* once with its id, name and version, sorted by name ascending with ties
\* broken by id ascending.
C18_MachinesListed ==
    req.op = "get_machines"
    => /\ resp.what = "ok"
       /\ Len(resp.result) = Cardinality(machines)
       /\ \A m \in machines :
            \E i \in DOMAIN resp.result :
                /\ resp.result[i].id = m.id
                /\ resp.result[i].name = m.name
                /\ resp.result[i].version = 1 + patched[m.id]
       /\ \A i, j \in DOMAIN resp.result :
            i < j =>
                \/ NameRank(resp.result[i].name) < NameRank(resp.result[j].name)
                \/ /\ resp.result[i].name = resp.result[j].name
                   /\ resp.result[i].id < resp.result[j].id

\* C19: a put_machine_state request with start > stop is rejected with
\* ConstraintViolation('stop before start') before the resolver runs, also
\* when the machine does not exist, and the store is unchanged; a request
\* with start = stop passes validation and is answered by the resolver.
C19_StopBeforeStart ==
    /\ (req.op = "put_machine_state" /\ req.data.start > req.data.stop)
       => /\ resp = [what |-> "ConstraintViolation",
                     why |-> "stop before start"]
          /\ machine_states = pre
          /\ machines = pre_machines
    /\ (req.op = "put_machine_state" /\ req.data.start = req.data.stop)
       => resp.what \in {"ok", "MachineNotFound", "MachineStateOverlap",
                         "MachineStateConditionChanged"}

\* a request with start > stop for a machine that does not exist was
\* rejected by the validation
W_C19_StopBeforeStartOfMissingMachine ==
    /\ req.op = "put_machine_state"
    /\ req.data.start > req.data.stop
    /\ req.data.machine_id \notin PreMachineIds
    /\ resp.what = "ConstraintViolation"

\* C20: a patch with no fields is rejected with ConstraintViolation('Empty
\* patch') whether or not the machine exists; the machine is unchanged and
\* no event is emitted.
C20_EmptyPatch ==
    (req.op = "patch_machine" /\ req.data.fields = {})
    => /\ resp = [what |-> "ConstraintViolation", why |-> "Empty patch"]
       /\ machines = pre_machines
       /\ machine_states = pre
       /\ emitted = <<>>

\* a patch with no fields was rejected for a machine that exists
W_C20_EmptyPatchOfMachine ==
    /\ req.op = "patch_machine"
    /\ req.data.fields = {}
    /\ req.id \in PreMachineIds
    /\ resp.what = "ConstraintViolation"

(***************************************************************************)
(* Properties of the requests after a delete_machine (SpecLater).          *)
(***************************************************************************)
\* the last request was a delete_machine and it left no machine with the
\* id, no state row of it, and the rows of the other machines as they were
DeleteHandled ==
    req.op = "delete_machine"
    => /\ machines = {m \in pre_machines : m.id # req.id}
       /\ machine_states = {s \in pre : s.machine_id # req.id}

\* C16 as stated: after delete_machine(id) the store contains no machine
\* with that id and no state row with machine_id = id, all rows of other
\* machines are unchanged, and any later put_machine_state for that id
\* fails with MachineNotFound.
C16_DeletedForEver ==
    /\ DeleteHandled
    /\ (PutHandled /\ req.data.machine_id \in deleted)
       => resp.what = "MachineNotFound"

\* C16: after delete_machine(id) the store contains no machine with that
\* id and no state row with machine_id = id, all rows of other machines are
\* unchanged, and a later put_machine_state for that id fails with
\* MachineNotFound as long as no machine was created with that id again.
C16_DeletedUntilCreatedAgain ==
    /\ DeleteHandled
    /\ (/\ PutHandled
        /\ req.data.machine_id \in deleted
        /\ req.data.machine_id \notin PreMachineIds)
       => /\ resp = [what |-> "MachineNotFound",
                     why |-> [machine_id |-> req.data.machine_id]]
          /\ machine_states = pre

\* a state was put for a deleted machine next to a machine that still has
\* state rows, and was refused
W_C16_PutAfterDelete ==
    /\ PutHandled
    /\ req.data.machine_id \in deleted
    /\ req.data.machine_id \notin PreMachineIds
    /\ resp.what = "MachineNotFound"
    /\ machine_states # {}

(***************************************************************************)
(* Concurrent requests: operation.put_machine_state of two workers, one    *)
(* statement of the session at a time.  No statement of the function locks *)
(* a row or a table and the session runs at the default isolation level of *)
(* the engine, so every query reads the rows committed so far.             *)
(***************************************************************************)
\* the requests the concurrent workers draw from
ConcStatePuts ==
    {d \in StatePuts : ~machine_state_put_violation(d)
                       /\ d.condition = "working"}

\* a worker receives a validated request
w_begin(w, data) ==
    /\ pc[w] = "idle"
    /\ pc' = [pc EXCEPT ![w] = "machine_exists"]
    /\ wdata' = [wdata EXCEPT ![w] = data]
    /\ UNCHANGED <<machines, machine_states, seqVars, patchVars,
                 wfound, wresp>>

\* if not machine_exists(...): return None, machine_not_found(...)
w_machine_exists(w) ==
    /\ pc[w] = "machine_exists"
    /\ IF machine_exists(machines, wdata[w].machine_id)
       THEN /\ pc' = [pc EXCEPT ![w] = "find_machine_state"]
            /\ UNCHANGED wresp
       ELSE /\ pc' = [pc EXCEPT ![w] = "done"]
            /\ wresp' = [wresp EXCEPT
                            ![w] = machine_not_found(wdata[w].machine_id)]
    /\ UNCHANGED <<machines, machine_states, seqVars, patchVars,
                 wdata, wfound>>

\* machine_state = find_machine_state(...) and the check of the condition
w_find_machine_state(w) ==
    /\ pc[w] = "find_machine_state"
    /\ \E found \in First(find_machine_state(
                        machine_states, wdata[w].machine_id,
                        wdata[w].start)) :
          /\ wfound' = [wfound EXCEPT ![w] = found]
          /\ IF condition_changed(found, wdata[w])
             THEN /\ pc' = [pc EXCEPT ![w] = "done"]
                  /\ wresp' = [wresp EXCEPT
                                  ![w] = machine_state_condition_changed(
                                      found.condition, wdata[w].condition)]
             ELSE /\ pc' = [pc EXCEPT ![w] = "machine_state_overlap"]
                  /\ UNCHANGED wresp
    /\ UNCHANGED <<machines, machine_states, seqVars, patchVars,
                 wdata>>

\* other_start_stop = machine_state_overlap(...)
w_machine_state_overlap(w) ==
    /\ pc[w] = "machine_state_overlap"
    /\ \E first \in First(overlap_query(
                        machine_states, wdata[w].machine_id,
                        wdata[w].start, wdata[w].stop)) :
          LET other == machine_state_overlap(
                           first, wdata[w].start, wdata[w].stop)
          IN  IF other # NoRow
              THEN /\ pc' = [pc EXCEPT ![w] = "done"]
                   /\ wresp' = [wresp EXCEPT
                                   ![w] = error_machine_state_overlap(
                                       other.start, other.stop,
                                       wdata[w].machine_id)]
              ELSE /\ pc' = [pc EXCEPT ![w] = "commit"]
                   /\ UNCHANGED wresp
    /\ UNCHANGED <<machines, machine_states, seqVars, patchVars,
                 wdata, wfound>>

\* the upsert: session.add(machine_state); session.commit()
w_commit(w) ==
    /\ pc[w] = "commit"
    /\ \E id \in assigned_ids(machine_states, wfound[w]) :
          LET row == upserted(wfound[w], wdata[w], id)
          IN  IF stale_update(machine_states, wfound[w], row)
              THEN /\ wresp' = [wresp EXCEPT ![w] = raised("StaleDataError")]
                   /\ UNCHANGED machine_states
              ELSE /\ machine_states' =
                          committed(machine_states, wfound[w], row)
                   /\ wresp' = [wresp EXCEPT ![w] = ok(row.id)]
    /\ pc' = [pc EXCEPT ![w] = "done"]
    /\ UNCHANGED <<machines, seqVars, patchVars, wdata, wfound>>

\* a machine is created while no state request is in flight
conc_post_machine(name) ==
    /\ \A w \in Workers : pc[w] = "idle"
    /\ post_machine([fields |-> {"name"}, name |-> name])

NextConc ==
    \/ \E name \in Names : conc_post_machine(name)
    \/ \E w \in Workers, data \in ConcStatePuts : w_begin(w, data)
    \/ \E w \in Workers : w_machine_exists(w)
    \/ \E w \in Workers : w_find_machine_state(w)
    \/ \E w \in Workers : w_machine_state_overlap(w)
    \/ \E w \in Workers : w_commit(w)

SpecConc == Init /\ [][NextConc]_vars

(***************************************************************************)
(* Concurrent requests: put_machine_state of the workers next to           *)
(* delete_machine.  The two DELETE statements and the commit of            *)
(* delete_machine are one transaction; it runs between any two statements  *)
(* of a put_machine_state.  The foreign key of machine_state.machine_id is  *)
(* not enforced by the store of the tests (SQLite, no PRAGMA foreign_keys). *)
(***************************************************************************)
conc_delete_machine(id) ==
    /\ delete_machine(id)
    /\ UNCHANGED deleted

NextDelete ==
    \/ \E name \in Names : conc_post_machine(name)
    \/ \E id \in MachineIds : conc_delete_machine(id)
    \/ \E w \in Workers, data \in ConcStatePuts : w_begin(w, data)
    \/ \E w \in Workers : w_machine_exists(w)
    \/ \E w \in Workers : w_find_machine_state(w)
    \/ \E w \in Workers : w_machine_state_overlap(w)
    \/ \E w \in Workers : w_commit(w)

SpecDelete == Init /\ [][NextDelete]_vars

(***************************************************************************)
(* Concurrent requests: operation.patch_machine of two workers.  The       *)
(* Machine is read by one statement, changed in the memory of the worker   *)
(* and written by the commit; no statement locks the row.                  *)
(***************************************************************************)
\* the patches the concurrent workers draw from
ConcPatches == {d \in MachinePatches : ~machine_patch_violation(d)}

\* a worker receives a validated patch
w_patch_begin(w, id, data) ==
    /\ pc[w] = "idle"
    /\ pc' = [pc EXCEPT ![w] = "patch_get"]
    /\ wpatch' = [wpatch EXCEPT ![w] = [id |-> id, data |-> data]]
    /\ UNCHANGED <<machines, machine_states, seqVars, putVars, wresp, wmachi>>

\* machi = session.query(Machine).get(id) and the assignment of the name
w_patch_get(w) ==
    /\ pc[w] = "patch_get"
    /\ \E row \in machine_get(machines, wpatch[w].id) :
          IF row = NoMachine
          THEN /\ pc' = [pc EXCEPT ![w] = "done"]
               /\ wresp' = [wresp EXCEPT
                               ![w] = machine_not_found(wpatch[w].id)]
               /\ UNCHANGED wmachi
          ELSE /\ pc' = [pc EXCEPT ![w] = "patch_commit"]
               /\ wmachi' = [wmachi EXCEPT
                                ![w] = renamed(loaded(row), wpatch[w].data)]
               /\ UNCHANGED wresp
    /\ UNCHANGED <<machines, machine_states, seqVars, putVars, wpatch>>

\* machi.version += 1; session.commit()
w_patch_commit(w) ==
    /\ pc[w] = "patch_commit"
    /\ pc' = [pc EXCEPT ![w] = "done"]
    /\ LET machi == wmachi[w]
       IN  IF machi.version = NoVersion
           THEN /\ wresp' = [wresp EXCEPT ![w] = raised("AttributeError")]
                /\ UNCHANGED <<machines, patched>>
           ELSE IF name_unique_violated(machines, machi.id, machi.name)
           THEN /\ wresp' = [wresp EXCEPT ![w] = raised("IntegrityError")]
                /\ UNCHANGED <<machines, patched>>
           ELSE /\ machines' =
                       machines_without(machines, machi.id)
                           \cup {stored(machi)}
                /\ patched' = [patched EXCEPT ![machi.id] = @ + 1]
                /\ wresp' = [wresp EXCEPT ![w] = ok(machi.version + 1)]
    /\ UNCHANGED <<machine_states, req, resp, pre, pre_machines, emitted,
                   deleted, putVars, patchVars>>

NextPatch ==
    \/ \E name \in Names : conc_post_machine(name)
    \/ \E w \in Workers, id \in MachineIds, data \in ConcPatches :
          w_patch_begin(w, id, data)
    \/ \E w \in Workers : w_patch_get(w)
    \/ \E w \in Workers : w_patch_commit(w)

SpecPatch == Init /\ [][NextPatch]_vars

(***************************************************************************)
(* Properties of concurrent requests.                                      *)
(***************************************************************************)
\* C10: two put_machine_state requests for the same machine with
\* intersecting intervals that run concurrently never both succeed: at most
\* one of them commits a row.
C10_AtMostOneCommits ==
    \A v \in Workers, w \in Workers :
        (/\ v # w
         /\ pc[v] = "done" /\ pc[w] = "done"
         /\ wdata[v].machine_id = wdata[w].machine_id
         /\ Intersects(wdata[v], wdata[w])
         /\ wresp[v].what = "ok" /\ wresp[w].what = "ok")
        => wresp[v].result = wresp[w].result

MutatingOps ==
    {"post_machine", "patch_machine", "delete_machine", "put_machine_state"}

\* C21: every successful put_machine_state (new row or update of an
\* existing row) publishes an event to the subscribers carrying the
\* resulting state.
C21_StatePutPublished ==
    (PutHandled /\ resp.what = "ok")
    => /\ Len(emitted) = 1
       /\ emitted[1].args.id = resp.result

\* C22: a request that ends in an error publishes no event, and the events
\* correspond one-to-one, in order, to the requests that answered with
\* success: every request for a change publishes exactly one event if it
\* answers with success and none otherwise.
C22_EventsMatchSuccesses ==
    req.op \in MutatingOps
    => /\ resp.what # "ok" => emitted = <<>>
       /\ resp.what = "ok" => Len(emitted) = 1

\* C23: a create or patch request is all-or-nothing: either the mutation is
\* committed, exactly one put_machine event carrying the committed id and
\* version (and the name, when supplied) is broadcast and the request
\* answers with success, or nothing is committed and nothing is broadcast.
C23_MachineMutationAtomic ==
    req.op \in {"post_machine", "patch_machine"}
    => \/ /\ machines = pre_machines
          /\ emitted = <<>>
       \/ /\ resp.what = "ok"
          /\ Len(emitted) = 1
          /\ emitted[1].name = "put_machine"
          /\ \E m \in machines :
                /\ m.id = emitted[1].args.id
                /\ loaded(m).version = emitted[1].args.version
                /\ "name" \in req.data.fields
                   => m.name = emitted[1].args.name

(***************************************************************************)
(* Properties of the stored states.                                        *)
(***************************************************************************)
\* the errors operation.put_machine_state returns
PutErrors ==
    {"MachineNotFound", "MachineStateConditionChanged", "MachineStateOverlap"}

\* the error objects of mesito/front/error.py
DomainErrors ==
    PutErrors \cup {"SchemaViolation", "ConstraintViolation"}

\* C24: after a successful put_machine_state the stored row holds the
\* request's stop and every optional metric the request supplied.
C24_MetricsStored ==
    (PutHandled /\ resp.what = "ok")
    => \E r \in machine_states :
          /\ r.id = resp.result
          /\ r.stop = req.data.stop
          /\ req.data.min_power_consumption # NULL
             => r.min_power_consumption = req.data.min_power_consumption
          /\ req.data.max_power_consumption # NULL
             => r.max_power_consumption = req.data.max_power_consumption
          /\ req.data.avg_power_consumption # NULL
             => r.avg_power_consumption = req.data.avg_power_consumption
          /\ req.data.total_energy # NULL
             => r.total_energy = req.data.total_energy
          /\ req.data.pieces # NULL => r.pieces = req.data.pieces

\* C25: every put_machine_state that returns an error (MachineNotFound,
\* MachineStateConditionChanged or MachineStateOverlap) leaves the store as
\* it was; the requests for a machine that does not exist and those that
\* change the condition of the row at their start are among them.
C25_ErrorLeavesStore ==
    (/\ PutHandled
     /\ \/ resp.what \in PutErrors
        \/ req.data.machine_id \notin PreMachineIds
        \/ \E R \in PreTargets : R.condition # req.data.condition)
    => /\ resp.what \in PutErrors
       /\ machine_states = pre
       /\ machines = pre_machines

\* a request was refused for an overlap while the machine had state rows
W_C25_OverlapRefused ==
    /\ PutHandled
    /\ resp.what = "MachineStateOverlap"
    /\ PreOfMachine # {}
    /\ machine_states = pre

\* C26: in every reachable state no two machines have the same name: a
\* create with a name already in use, or a patch renaming a machine to
\* another machine's name, commits nothing, emits no event, and is not
\* reported as one of the domain errors.
C26_UniqueNames ==
    /\ \A a \in machines, b \in machines : a.name = b.name => a = b
    /\ (/\ \/ /\ req.op = "post_machine"
              /\ "name" \in req.data.fields
              /\ \E m \in pre_machines : m.name = req.data.name
           \/ /\ PatchHandled
              /\ req.id \in PreMachineIds
              /\ \E m \in pre_machines :
                    m.id # req.id /\ m.name = req.data.name)
       => /\ machines = pre_machines
          /\ emitted = <<>>
          /\ resp.what \notin DomainErrors

\* a machine was posted with the name of a stored machine
W_C26_NameInUse ==
    /\ req.op = "post_machine"
    /\ \E m \in pre_machines : m.name = req.data.name
    /\ resp.what = "IntegrityError"
    /\ machines = pre_machines

\* C27: in every reachable state every machine's name is a non-empty
\* string: a create or patch request carrying the empty name is rejected
\* and stores nothing.
C27_NamesNotEmpty ==
    /\ \A m \in machines : m.name # ""
    /\ (/\ req.op \in {"post_machine", "patch_machine"}
        /\ "name" \in req.data.fields
        /\ req.data.name = "")
       => resp.what \in DomainErrors /\ machines = pre_machines

\* C28 as stated: for an existing row (m, s, e) and a request (m, s, e',
\* same condition) with s <= e' < e, the request is rejected with
\* MachineStateOverlap{start: s, stop: e, machine_id: m} and the row keeps
\* stop e.
C28_NeverShortened ==
    PutHandled
    => \A R \in PreTargets :
          (R.condition = req.data.condition /\ req.data.stop < R.stop)
          => /\ resp = [what |-> "MachineStateOverlap",
                        why |-> [start |-> R.start, stop |-> R.stop,
                                 machine_id |-> R.machine_id]]
             /\ R \in machine_states

\* C28: for an existing row (m, s, e) and a request (m, s, e', same
\* condition) with s < e' < e, the request is rejected with
\* MachineStateOverlap and the store is unchanged; the error names (s, e)
\* if the request intersects no other row of the machine.  A request with
\* e' = s < e that intersects no other row is accepted and sets the stop of
\* the row to s.
C28_ShortenedOnlyToStart ==
    PutHandled
    => \A R \in PreTargets :
          /\ (/\ R.condition = req.data.condition
              /\ R.start < req.data.stop
              /\ req.data.stop < R.stop)
             => /\ resp.what = "MachineStateOverlap"
                /\ machine_states = pre
                /\ PreOthersHit = {}
                   => resp.why = [start |-> R.start, stop |-> R.stop,
                                  machine_id |-> R.machine_id]
          /\ (/\ R.condition = req.data.condition
              /\ R.start = req.data.stop
              /\ req.data.stop < R.stop
              /\ PreOthersHit = {})
             => /\ resp = [what |-> "ok", result |-> R.id]
                /\ \E r \in machine_states :
                      r.id = R.id /\ r.start = R.start /\ r.stop = R.start

\* a request to shorten a row to a stop after its start was refused
W_C28_ShorteningRefused ==
    /\ PutHandled
    /\ resp.what = "MachineStateOverlap"
    /\ \E R \in PreTargets :
          /\ R.condition = req.data.condition
          /\ R.start < req.data.stop
          /\ req.data.stop < R.stop
          /\ R \in machine_states

\* the row A ends where the request d starts, or starts where it ends
Adjacent(A, d) == A.stop = d.start \/ A.start = d.stop

\* C29: a new state whose start equals the stop of an existing state of the
\* same machine, or whose stop equals the start of an existing state, is
\* not a conflict and is accepted as a new row (when it intersects no other
\* row), leaving the adjacent row unchanged.
C29_AdjacentAccepted ==
    (/\ PutHandled
     /\ req.data.machine_id \in PreMachineIds
     /\ PreTargets = {}
     /\ PreOthersHit = {}
     /\ \E A \in PreOfMachine : Adjacent(A, req.data))
    => /\ resp.what = "ok"
       /\ \E r \in machine_states :
             /\ r \notin pre
             /\ machine_states = pre \cup {r}
             /\ r.id = resp.result
             /\ r.id \notin {s.id : s \in pre}
             /\ r.machine_id = req.data.machine_id
             /\ r.start = req.data.start
             /\ r.stop = req.data.stop

\* a state of positive length was accepted right after a state of positive
\* length of the same machine
W_C29_AdjacentStored ==
    /\ PutHandled
    /\ resp.what = "ok"
    /\ PreTargets = {}
    /\ req.data.start < req.data.stop
    /\ \E A \in PreOfMachine :
          /\ A.start < A.stop
          /\ A.stop = req.data.start
          /\ A \in machine_states

\* C30: in every reachable state every stored state row satisfies
\* start <= stop.
C30_StartNotAfterStop ==
    \A s \in machine_states : s.start <= s.stop

\* a state of length zero was stored at the largest time
W_C30_ZeroLengthStored ==
    /\ req.op = "put_machine_state"
    /\ resp.what = "ok"
    /\ \E r \in machine_states :
          r.id = resp.result /\ r.start = r.stop /\ r.start = MaxTime

(***************************************************************************)
(* Properties of the output casts (SpecCast).                              *)
(***************************************************************************)
\* C31: the output casts accept every machine version that is exactly
\* representable as a JSON double (version <= 2^53), in particular the
\* versions from 107 on that a machine has after 106 or more patches: the
\* cast of list() and the cast of the event of a patch answer with the
\* machine and its version.
C31_VersionsCast ==
    req.op \in {"out.machine", "out.machine_put_emit",
                "out.machine_patch_emit"}
    => /\ resp.what = "ok"
       /\ resp.result.id = req.id
       /\ resp.result.version = req.data.version

(***************************************************************************)
(* Properties of the results of the operations.                            *)
(***************************************************************************)
\* C32: every core operation that can fail returns exactly one of a result
\* or an error: patch_machine answers with the version or MachineNotFound,
\* and put_machine_state with the state id or exactly one of
\* MachineNotFound, MachineStateConditionChanged, MachineStateOverlap.
C32_ResultOrError ==
    /\ PatchHandled => resp.what \in {"ok", "MachineNotFound"}
    /\ PutHandled => resp.what \in {"ok"} \cup PutErrors

\* the answer without the id of the row written
Outcome == IF resp.what = "ok" THEN [what |-> "ok"] ELSE resp

\* the rows of the machines other than the one requested
RowsOfOthers(rows) == {s \in rows : s.machine_id # req.data.machine_id}

\* C34: the outcome of put_machine_state for machine A (success, or which
\* error with which values) depends only on A's existence and A's state
\* rows, never on the state rows of another machine B, and the request
\* never modifies a row of B: the outcome is one the checks give on A's rows
\* alone.
C34_MachinesIsolated ==
    PutHandled
    => /\ Outcome \in put_outcomes(req.data.machine_id \in PreMachineIds,
                                   PreOfMachine, req.data)
       /\ RowsOfOthers(machine_states) = RowsOfOthers(pre)

\* a state was accepted for one machine while a row of another machine
\* intersected its interval
W_C34_OtherMachineIntersects ==
    /\ PutHandled
    /\ resp.what = "ok"
    /\ \E s \in RowsOfOthers(pre) :
          Intersects(s, req.data) /\ s \in machine_states

\* C35: an accepted put_machine_state on an existing row replaces the row's
\* power and energy metrics as a whole: each of min_power_consumption,
\* max_power_consumption, avg_power_consumption and total_energy is the
\* value of the request, null if the request omits it, while machine_id,
\* start, condition and the row id stay unchanged.
C35_MetricsReplaced ==
    (PutHandled /\ resp.what = "ok")
    => \A R \in PreTargets :
          /\ resp.result = R.id
          /\ \E r \in machine_states :
                /\ r.id = R.id
                /\ r.machine_id = R.machine_id
                /\ r.start = R.start
                /\ r.condition = R.condition
                /\ r.min_power_consumption = req.data.min_power_consumption
                /\ r.max_power_consumption = req.data.max_power_consumption
                /\ r.avg_power_consumption = req.data.avg_power_consumption
                /\ r.total_energy = req.data.total_energy

\* a row with metrics was updated by a request without them
W_C35_MetricsCleared ==
    /\ PutHandled
    /\ resp.what = "ok"
    /\ req.data.total_energy = NULL
    /\ \E R \in PreTargets :
          /\ R.total_energy # NULL
          /\ R.min_power_consumption # NULL
          /\ \E r \in machine_states :
                /\ r.id = R.id
                /\ r.total_energy = NULL
                /\ r.min_power_consumption = NULL

(***************************************************************************)
(* Properties of put_machine_state next to delete_machine (SpecDelete).    *)
(***************************************************************************)
\* C33: in every reachable state, including states reached when a
\* put_machine_state and a delete_machine for the same machine run
\* concurrently, every state row's machine_id is the id of an existing
\* machine.
C33_NoOrphanStates ==
    \A s \in machine_states : \E m \in machines : m.id = s.machine_id

====
